---- MODULE Spec2Model ----
(***************************************************************************)
(* Browser-session orchestration of the cloud-browser service:             *)
(* api/sessions.py, api/admin.py, models/session.py and                    *)
(* services/docker_service.py.                                             *)
(*                                                                         *)
(* The registry is the browser_session table, the runtime is the set of    *)
(* containers the Docker daemon holds.  Time is counted in hours.  Each    *)
(* request handler is translated as written; calls into the container      *)
(* runtime and the audit sink are environment steps that either take the   *)
(* effect the handler expects or fail the way the handler's except         *)
(* clauses anticipate.  The database itself is taken to be reliable.       *)
(***************************************************************************)
EXTENDS Integers, Sequences, FiniteSets, TLC

(* ---------------- program constants ---------------- *)
NULL == -1                      \* Python None in a nullable column
VNC_START == 5900               \* _find_available_port(5900, 6000)
VNC_END == 6000
WEB_START == 6080               \* _find_available_port(6080, 7000)
WEB_END == 7000
DEFAULT_TTL == 1                \* expires_at = utcnow() + timedelta(hours=1)
MAX_EXTEND_HOURS == 8           \* min(int(hours), 8)
MAX_AGE_HOURS == 24             \* cleanup_expired_containers(max_age_hours=24)
READY_TIMEOUT == 60             \* _wait_for_container_ready(container, timeout=60), seconds
MAX_FAILED_LOGINS == 5          \* increment_failed_login: failed_login_attempts >= 5
LOCK_MINUTES == 30              \* lock_account(duration_minutes=30)
ERROR_LIMIT == 5                \* add_error: error_count >= 5
RETENTION_HOURS == 168          \* cleanup_database: timedelta(days=7)
CONTAINER_CPU_LIMIT == 1        \* config.py: CONTAINER_CPU_LIMIT, in cpus
CONTAINER_MEMORY_LIMIT == 2     \* config.py: CONTAINER_MEMORY_LIMIT, in gigabytes

(* ---------------- bounds of the model ---------------- *)
MaxSessions == 2                \* records (and containers) ever created
MaxTicks == 1                   \* advances of the clock
MaxExtends == 2                 \* extend requests served
PortSpan == 2                   \* ports modelled at the low end of each range
MaxQuota == 1                   \* largest max_containers value of a user
MaxViews == 2                   \* accesses counted per record
MaxPasses == 2                  \* cleanup requests that can be in progress together

Users == {1, 2}
\* what a round of the readiness loop finds when it inspects the container:
\* reload() raises, the container is not running (yet, or any more), it runs and
\* its log has no marker, it runs and its log has "VNC started"
InspectResults == {"raises", "created", "exited", "running", "running_marked"}
CallSeconds == {0, 1}            \* seconds the calls into the runtime take in one round
TickSteps == {1, MAX_AGE_HOURS + 1, RETENTION_HOURS + 1}
HoursInputs == {-1, 0, 1, MAX_EXTEND_HOURS + 1}
BrowserInputs == {"firefox", "chrome", "chromium", "opera"}
DigitInputs == {2, 4}           \* digits of each side of screen_resolution

Admins == {0}                    \* users whose is_admin is true; they own no session here
Principals == Users \cup Admins   \* g.current_user of a request
NameInputs == {NULL, 0, 1}       \* session_name of an update: no such key, the old name, a new one
SessIds == 1..MaxSessions        \* a record's id; its container carries the same id
PassIds == 1..MaxPasses          \* the cleanup requests being served
Min(a, b) == IF a < b THEN a ELSE b
Max(a, b) == IF a > b THEN a ELSE b
VncPorts == VNC_START..(Min(VNC_END, VNC_START + PortSpan) - 1)
WebPorts == WEB_START..(Min(WEB_END, WEB_START + PortSpan) - 1)

VARIABLES
    now,            \* datetime.utcnow(), in hours
    ticks,          \* how often the clock has advanced
    extends,        \* how many extend requests have been served
    maxContainers,  \* User.max_containers
    hostPorts,      \* ports of the host bound by processes other than the containers
    accounts,       \* user rows, by id: the columns the login reads and writes
    wait,           \* a call of _wait_for_container_ready: position and seconds elapsed
    sessions,       \* browser_session rows, by id
    containers,     \* containers held by the runtime, by id
    req,            \* the create_session request of each record: position and locals
    sweep,          \* the cleanup requests: position and locals of each pass
    resp            \* the response of the handler that returned last

vars == <<now, ticks, extends, maxContainers, hostPorts, accounts, wait, sessions, containers, req,
          sweep, resp>>

\* data = g.json_data: the keys of the request body that name resource limits
NoLimits == [cpu_limit |-> NULL, memory_limit |-> NULL]
\* what a request body asks for: nothing, no cpu at all, or far more than the
\* configuration grants (cpus, gigabytes)
LimitInputs ==
    {NoLimits, [cpu_limit |-> 0, memory_limit |-> 64],
               [cpu_limit |-> 64, memory_limit |-> 64]}
IdleReq == [pc |-> "idle", user |-> NULL, vnc |-> NULL, web |-> NULL,
            data |-> NoLimits, cpu_limit |-> NULL, memory_limit |-> NULL]
IdleWait == [pc |-> "idle", elapsed |-> 0, found |-> "none"]
IdleSweep == [pc |-> "idle", kind |-> "none", todo |-> {}, snapshot |-> {},
              calls |-> <<>>]
NoResp == [op |-> "none", sid |-> NULL, code |-> "none", calls |-> <<>>]

Response(op, sid, code, calls) ==
    [op |-> op, sid |-> sid, code |-> code, calls |-> calls]

Without(f, x) == [y \in DOMAIN f \ {x} |-> f[y]]

(* ---------------- models/user.py ---------------- *)

\* a user row as the column defaults leave it: active, no failed login, not
\* locked.  failed_verifications is a history field, no column: how many
\* password verifications have failed since the last successful login (a
\* failure after a series of MAX_FAILED_LOGINS begins a new series)
NewUser ==
    [active |-> TRUE, failed_login_attempts |-> 0, locked_until |-> NULL,
     failed_verifications |-> 0]

\* User.is_locked; locked_until is in minutes, the clock in hours
is_locked(user) ==
    IF user.locked_until = NULL THEN FALSE ELSE now * 60 < user.locked_until

\* User.lock_account
lock_account(user) ==
    [user EXCEPT !.locked_until = now * 60 + LOCK_MINUTES,
                 !.failed_login_attempts = 0]

\* a count of failed logins that never locks the account
increment_failed_login_only(user) ==
    [user EXCEPT !.failed_login_attempts = @ + 1]

\* User.increment_failed_login
increment_failed_login(user) ==
    LET u1 == [user EXCEPT !.failed_login_attempts = @ + 1]
    IN IF u1.failed_login_attempts >= MAX_FAILED_LOGINS THEN lock_account(u1) ELSE u1

\* User.reset_failed_login
reset_failed_login(user) ==
    [user EXCEPT !.failed_login_attempts = 0, !.locked_until = NULL]

(* ---------------- models/session.py ---------------- *)

\* a constructor that leaves the lifetime out of expires_at
NewSessionNoTtl(u) ==
    [user_id |-> u, status |-> "creating", container_id |-> NULL,
     vnc_port |-> NULL, web_port |-> NULL, access_url |-> NULL,
     created_at |-> now, expires_at |-> now,
     started_at |-> NULL, stopped_at |-> NULL, error_count |-> 0,
     page_views |-> 0, last_accessed |-> now, session_name |-> 0,
     committed |-> FALSE]

\* a constructor that fills the endpoints in before any container runs
NewSessionWithPorts(u) ==
    [user_id |-> u, status |-> "creating", container_id |-> NULL,
     vnc_port |-> VNC_START, web_port |-> WEB_START, access_url |-> WEB_START,
     created_at |-> now, expires_at |-> now + DEFAULT_TTL,
     started_at |-> NULL, stopped_at |-> NULL, error_count |-> 0,
     page_views |-> 0, last_accessed |-> now, session_name |-> 0,
     committed |-> FALSE]

\* BrowserSession.__init__ and the column defaults applied at flush
NewSession(u) ==
    [user_id |-> u, status |-> "creating", container_id |-> NULL,
     vnc_port |-> NULL, web_port |-> NULL, access_url |-> NULL,
     created_at |-> now, expires_at |-> now + DEFAULT_TTL,
     started_at |-> NULL, stopped_at |-> NULL, error_count |-> 0,
     page_views |-> 0, last_accessed |-> now, session_name |-> 0,
     committed |-> FALSE]

\* an activity test that still counts a Stopped record
is_active_or_stopped(s) == s.status \in {"creating", "running", "stopped"}

is_active(s) == s.status \in {"creating", "running"}

is_expired(s) == IF s.expires_at # NULL THEN now > s.expires_at ELSE FALSE

extend_session(s, hours) ==
    [s EXCEPT !.expires_at = Max(s.expires_at, now) + hours]

add_error(s) ==
    LET n == s.error_count + 1
    IN [s EXCEPT !.error_count = n,
                 !.status = IF n >= ERROR_LIMIT THEN "error" ELSE s.status]

clear_errors(s) == [s EXCEPT !.error_count = 0]

\* a counter that moves on without the access time
increment_page_views_only(s) == [s EXCEPT !.page_views = @ + 1]

\* increment_page_views, which ends in update_last_accessed
increment_page_views(s) == [s EXCEPT !.page_views = @ + 1, !.last_accessed = now]

update_status(s, status, withError) ==
    LET s1 == [s EXCEPT !.status = status]
        s2 == IF status = "running" /\ s1.started_at = NULL
                 THEN [s1 EXCEPT !.started_at = now]
              ELSE IF status \in {"stopped", "error", "expired"}
                 THEN [s1 EXCEPT !.stopped_at = now]
              ELSE s1
    IN IF withError THEN add_error(s2)
       ELSE IF status = "running" THEN clear_errors(s2)
       ELSE s2

(* ---------------- services/docker_service.py ---------------- *)

\* a host port is bound while a running container publishes it or another
\* process of the host listens on it
PortBound(cs, p) ==
    \/ p \in hostPorts
    \/ \E c \in DOMAIN cs : cs[c].status = "running" /\ p \in {cs[c].vnc, cs[c].web}

\* the bind probe: the first port of the range that nothing is bound to
FreePorts(cs, range) == {p \in range : ~PortBound(cs, p)}
\* a probe that hands out the first port of the range when none is free
_find_available_port_any(cs, range) ==
    IF FreePorts(cs, range) = {} THEN CHOOSE p \in range : \A q \in range : p <= q
    ELSE CHOOSE p \in FreePorts(cs, range) : \A q \in FreePorts(cs, range) : p <= q

_find_available_port(cs, range) ==
    IF FreePorts(cs, range) = {} THEN NULL
    ELSE CHOOSE p \in FreePorts(cs, range) : \A q \in FreePorts(cs, range) : p <= q

\* session_data.get(key, default)
Get(value, default) == IF value # NULL THEN value ELSE default

\* lines 124-126: the limits of the container, from session_data or the configuration
ResourceLimits(session_data) ==
    [cpu_limit |-> Get(session_data.cpu_limit, CONTAINER_CPU_LIMIT),
     memory_limit |-> Get(session_data.memory_limit, CONTAINER_MEMORY_LIMIT)]

\* container_config: what client.containers.run is given
NewContainer(status, u, vnc, web, limits) ==
    [status |-> status, user |-> u, vnc |-> vnc, web |-> web, created |-> now,
     cpu_limit |-> limits.cpu_limit, mem_limit |-> limits.memory_limit]

\* stop_container: the runtime stops the container unless the call fails
stop_container(cs, c, ok) ==
    IF c \in DOMAIN cs /\ ok THEN [cs EXCEPT ![c].status = "exited"] ELSE cs

\* remove_container: the runtime drops the container unless the call fails
remove_container(cs, c, ok) ==
    IF c \in DOMAIN cs /\ ok THEN Without(cs, c) ELSE cs

\* a validation that checks the resolution only
validate_resolution_only(data) ==
    data.wd \in 3..4 /\ data.hd \in 3..4

\* a stop call that reports a missing container as a failure
stop_container_strict(cs, c, ok) == ok /\ c \in DOMAIN cs

\* what stop_container returns: True when the runtime stopped the container or
\* answered NotFound, False when the call raised anything else
stop_container_returns(cs, c, ok) ==
    IF ~ok THEN FALSE
    ELSE IF c \notin DOMAIN cs THEN TRUE
    ELSE TRUE

\* what remove_container returns, in the same way
remove_container_returns(cs, c, ok) ==
    IF ~ok THEN FALSE
    ELSE IF c \notin DOMAIN cs THEN TRUE
    ELSE TRUE

\* validate_session_data (auth/validators.py): browser type and resolution
validate_session_data(data) ==
    /\ data.browser_type \in {"firefox", "chrome", "chromium"}
    /\ data.wd \in 3..4 /\ data.hd \in 3..4

\* a validator that hands every key of the request body on
ValidDataWithLimits(data) == data

\* valid_data of validate_session_data: the keys the validator copies are
\* browser_type, session_name, initial_url and screen_resolution, nothing else
ValidData(data) ==
    [browser_type |-> data.browser_type, wd |-> data.wd, hd |-> data.hd,
     cpu_limit |-> NULL, memory_limit |-> NULL]

SessionInputs ==
    {[browser_type |-> b, wd |-> w, hd |-> h,
      cpu_limit |-> l.cpu_limit, memory_limit |-> l.memory_limit] :
        b \in BrowserInputs, w \in DigitInputs, h \in DigitInputs, l \in LimitInputs}

\* another process of the host binds a port that is free, or gives one up:
\* sock.bind in _find_available_port raises OSError for such a port as well
HostBinds(p) ==
    /\ ~PortBound(containers, p)
    /\ hostPorts' = hostPorts \cup {p}
    /\ UNCHANGED <<now, ticks, extends, maxContainers, accounts, wait, sessions, containers,
                   req, sweep, resp>>

HostReleases(p) ==
    /\ p \in hostPorts
    /\ hostPorts' = hostPorts \ {p}
    /\ UNCHANGED <<now, ticks, extends, maxContainers, accounts, wait, sessions, containers,
                   req, sweep, resp>>

\* the main process of a running container ends on its own: with restart_policy
\* "no" the runtime leaves the container exited, and its published host ports
\* are free again
ContainerExits(c) ==
    /\ c \in DOMAIN containers
    /\ containers[c].status = "running"
    /\ containers' = [containers EXCEPT ![c].status = "exited"]
    /\ UNCHANGED <<now, ticks, extends, maxContainers, hostPorts, accounts, wait, sessions, req, sweep, resp>>

\* a loop whose rounds take no time
SleptNot(elapsed, seconds) == elapsed

\* time.time() - start_time after a round that took the given seconds
Slept(elapsed, seconds) == elapsed + seconds

\* _wait_for_container_ready is called: start_time = time.time(); found is
\* what an inspection of the container would find at present
WaitStart(found) ==
    /\ wait.pc = "idle"
    /\ wait' = [pc |-> "polling", elapsed |-> 0, found |-> found]
    /\ UNCHANGED <<now, ticks, extends, maxContainers, hostPorts, accounts, sessions,
                   containers, req, sweep, resp>>

\* the container, or the runtime's answer about it, changes while it is polled
ContainerChanges(found) ==
    /\ wait.pc = "polling"
    /\ wait.found # found
    /\ wait' = [wait EXCEPT !.found = found]
    /\ UNCHANGED <<now, ticks, extends, maxContainers, hostPorts, accounts, sessions,
                   containers, req, sweep, resp>>

\* one round of the while loop, entered while the time elapsed is below the
\* timeout; d is the time the calls into the runtime take.  A running container
\* ends the wait with True, at once when the log has the marker and after
\* sleep(2) when it has not; otherwise (an exception of reload() is caught) the
\* round ends with sleep(1)
WaitRound(d) ==
    /\ wait.pc = "polling"
    /\ wait.elapsed < READY_TIMEOUT
    /\ wait' = CASE wait.found = "running_marked" ->
                      [wait EXCEPT !.pc = "returned", !.elapsed = Slept(@, d)]
                 [] wait.found = "running" ->
                      [wait EXCEPT !.pc = "returned", !.elapsed = Slept(@, d + 2)]
                 [] OTHER ->
                      [wait EXCEPT !.elapsed = Slept(@, d + 1)]
    /\ UNCHANGED <<now, ticks, extends, maxContainers, hostPorts, accounts, sessions,
                   containers, req, sweep, resp>>

\* the loop condition fails: raise Exception("Container not ready after ...")
WaitTimesOut ==
    /\ wait.pc = "polling"
    /\ wait.elapsed >= READY_TIMEOUT
    /\ wait' = [wait EXCEPT !.pc = "raised"]
    /\ UNCHANGED <<now, ticks, extends, maxContainers, hostPorts, accounts, sessions,
                   containers, req, sweep, resp>>

(* ---------------- api/sessions.py: create_session ---------------- *)

\* user.browser_sessions.filter_by(status=RUNNING).count()
active_sessions(u) ==
    Cardinality({s \in DOMAIN sessions : /\ sessions[s].committed
                                         /\ sessions[s].user_id = u
                                         /\ sessions[s].status = "running"})

QuotaReached(u) == active_sessions(u) >= maxContainers[u]

\* a failure path that keeps the record of request r and marks it Error
RollbackMarksError(r) ==
    IF r \in DOMAIN sessions /\ ~sessions[r].committed
       THEN [sessions EXCEPT ![r].status = "error"]
    ELSE sessions

\* db.session.rollback(): the uncommitted record of request r is dropped
Rollback(r) ==
    IF r \in DOMAIN sessions /\ ~sessions[r].committed THEN Without(sessions, r)
    ELSE sessions

\* quota check, validation, availability check, db.session.add + flush
CreateStart(r, u, data, available) ==
    /\ req[r].pc = "idle"
    /\ \A q \in SessIds : q < r => req[q].pc # "idle"
    /\ IF QuotaReached(u)
         THEN /\ resp' = Response("create", NULL, "max_containers_reached", <<>>)
              /\ UNCHANGED <<sessions, req>>
       ELSE IF ~validate_session_data(data)
         THEN /\ resp' = Response("create", NULL, "validation_failed", <<>>)
              /\ UNCHANGED <<sessions, req>>
       ELSE IF ~available
         THEN /\ resp' = Response("create", NULL, "service_unavailable", <<>>)
              /\ UNCHANGED <<sessions, req>>
       ELSE /\ sessions' = (r :> NewSession(u)) @@ sessions
            /\ req' = [req EXCEPT ![r] =
                          [IdleReq EXCEPT !.pc = "registered", !.user = u,
                                          !.data = [cpu_limit |-> data.cpu_limit,
                                                    memory_limit |-> data.memory_limit],
                                          !.cpu_limit = ValidData(data).cpu_limit,
                                          !.memory_limit = ValidData(data).memory_limit]]
            /\ UNCHANGED resp
    /\ UNCHANGED <<now, ticks, extends, maxContainers, hostPorts, accounts, wait, containers, sweep>>

\* create_browser_container, lines 104-106: the two port probes
FindPorts(r) ==
    /\ req[r].pc = "registered"
    /\ LET vnc == _find_available_port(containers, VncPorts)
           web == _find_available_port(containers, WebPorts)
       IN IF vnc = NULL \/ web = NULL
            THEN /\ sessions' = Rollback(r)
                 /\ req' = [req EXCEPT ![r].pc = "done", ![r].data = NoLimits]
                 /\ resp' = Response("create", r, "container_creation_failed", <<>>)
          ELSE /\ req' = [req EXCEPT ![r].pc = "ports", ![r].vnc = vnc, ![r].web = web]
               /\ UNCHANGED <<sessions, resp>>
    /\ UNCHANGED <<now, ticks, extends, maxContainers, hostPorts, accounts, wait, containers, sweep>>

\* client.containers.run(detach=True, ...): the runtime creates the container and
\* starts it; the start fails when a published host port is already bound, and a
\* container whose start failed stays behind in state "created"
RunContainer(r, outcome) ==
    /\ req[r].pc = "ports"
    /\ LET conflict == PortBound(containers, req[r].vnc) \/ PortBound(containers, req[r].web)
           limits == ResourceLimits(req[r])
           left == NewContainer("created", req[r].user, req[r].vnc, req[r].web, limits)
           up == NewContainer("running", req[r].user, req[r].vnc, req[r].web, limits)
       IN IF outcome = "ok" /\ ~conflict
            THEN /\ containers' = (r :> up) @@ containers
                 /\ req' = [req EXCEPT ![r].pc = "started"]
                 /\ UNCHANGED <<sessions, resp>>
          ELSE /\ containers' = IF outcome = "create_failed" THEN containers
                                ELSE (r :> left) @@ containers
               /\ sessions' = Rollback(r)
               /\ req' = [req EXCEPT ![r].pc = "done", ![r].data = NoLimits]
               /\ resp' = Response("create", r, "container_creation_failed", <<>>)
    /\ UNCHANGED <<now, ticks, extends, maxContainers, hostPorts, accounts, wait, sweep>>

\* _wait_for_container_ready; then lines 131-158 of create_session
CreateFinish(r, ready, auditOk) ==
    /\ req[r].pc = "started"
    /\ ready => (r \in DOMAIN containers /\ containers[r].status = "running")
    /\ IF ready
         THEN /\ sessions' = [sessions EXCEPT ![r] =
                     [@ EXCEPT !.container_id = r,
                               !.vnc_port = req[r].vnc,
                               !.web_port = req[r].web,
                               !.access_url = req[r].web,
                               !.status = "running",
                               !.started_at = now,
                               !.committed = TRUE]]
              /\ resp' = Response("create", r,
                            IF auditOk THEN "created" ELSE "container_creation_failed", <<>>)
       ELSE /\ sessions' = Rollback(r)
            /\ resp' = Response("create", r, "container_creation_failed", <<>>)
    /\ req' = [req EXCEPT ![r].pc = "done", ![r].data = NoLimits]
    /\ UNCHANGED <<now, ticks, extends, maxContainers, hostPorts, accounts, wait, containers, sweep>>

(* ---------------- api/sessions.py: the other session handlers ---------------- *)

\* records another request can see: the committed ones
Visible == {s \in DOMAIN sessions : sessions[s].committed}

\* the requested hours taken without the cap
ExtendHoursUncapped(h) == h

\* hours = min(int(data.get('hours', 1)), 8)
ExtendHours(h) == Min(h, MAX_EXTEND_HOURS)

extend_session_handler(s, h) ==
    /\ s \in Visible
    /\ extends < MaxExtends
    /\ extends' = extends + 1
    /\ IF ~is_active(sessions[s])
         THEN /\ resp' = Response("extend", s, "session_not_active", <<>>)
              /\ UNCHANGED sessions
       ELSE /\ sessions' = [sessions EXCEPT ![s] = extend_session(@, ExtendHours(h))]
            /\ resp' = Response("extend", s, "ok", <<>>)
    /\ UNCHANGED <<now, ticks, maxContainers, hostPorts, accounts, wait, containers, req, sweep>>

\* the runtime calls a handler issues for the container of a record
StopCall(s) == <<"stop", sessions[s].container_id>>
RemoveCall(s) == <<"remove", sessions[s].container_id>>

\* a status update that waits for the calls into the runtime to succeed
StatusAfterTeardownIfOk(s, status, withError, ok) ==
    IF ok THEN update_status(sessions[s], status, withError) ELSE sessions[s]

\* the record of a stop request or of a round of a cleanup pass after the calls
\* into the runtime: their result is logged at most, the status is updated
\* whether they succeeded or not
StatusAfterTeardown(s, status, withError, ok) ==
    update_status(sessions[s], status, withError)

\* a stop handler without the status check: it stops whatever record it is given
StopHandlerUnchecked(op, s, stopOk, withError) ==
    /\ s \in Visible
    /\ containers' = IF sessions[s].container_id # NULL
                        THEN stop_container(containers, sessions[s].container_id, stopOk)
                     ELSE containers
    /\ sessions' = [sessions EXCEPT ![s] = update_status(@, "stopped", withError)]
    /\ resp' = Response(op, s, "ok",
                        IF sessions[s].container_id # NULL THEN <<StopCall(s)>>
                        ELSE <<>>)
    /\ UNCHANGED <<now, ticks, extends, maxContainers, hostPorts, accounts, wait, req, sweep>>

\* stop_session (withError = FALSE) and admin.stop_any_session (withError = TRUE)
StopHandler(op, s, stopOk, withError) ==
    /\ s \in Visible
    /\ IF sessions[s].status \notin {"running", "creating"}
         THEN /\ resp' = Response(op, s, "session_not_running", <<>>)
              /\ UNCHANGED <<sessions, containers>>
       ELSE /\ containers' = IF sessions[s].container_id # NULL
                                THEN stop_container(containers, sessions[s].container_id, stopOk)
                             ELSE containers
            /\ sessions' = [sessions EXCEPT
                               ![s] = StatusAfterTeardown(s, "stopped", withError, stopOk)]
            /\ resp' = Response(op, s, "ok",
                                IF sessions[s].container_id # NULL THEN <<StopCall(s)>>
                                ELSE <<>>)
    /\ UNCHANGED <<now, ticks, extends, maxContainers, hostPorts, accounts, wait, req, sweep>>

stop_session(s, stopOk) == StopHandler("stop", s, stopOk, FALSE)

stop_any_session(s, stopOk) == StopHandler("admin_stop", s, stopOk, TRUE)

delete_session(s, stopOk, removeOk) ==
    /\ s \in Visible
    /\ containers' = IF sessions[s].container_id # NULL
                        THEN remove_container(
                                 stop_container(containers, sessions[s].container_id, stopOk),
                                 sessions[s].container_id, removeOk)
                     ELSE containers
    /\ sessions' = Without(sessions, s)
    /\ resp' = Response("delete", s, "ok",
                        IF sessions[s].container_id # NULL
                           THEN <<StopCall(s), RemoveCall(s)>> ELSE <<>>)
    /\ UNCHANGED <<now, ticks, extends, maxContainers, hostPorts, accounts, wait, req, sweep>>

\* connection_info of the access response
ConnectionInfo(s) ==
    [access_url |-> sessions[s].access_url,
     vnc_port |-> sessions[s].vnc_port,
     web_port |-> sessions[s].web_port]

\* access_session; get_container_status only reads the runtime
access_session(s) ==
    /\ s \in Visible
    /\ sessions[s].page_views < MaxViews
    /\ IF ~is_active(sessions[s])
         THEN /\ resp' = Response("access", s, "session_not_active", <<>>)
              /\ UNCHANGED sessions
       ELSE IF is_expired(sessions[s])
         THEN /\ sessions' = [sessions EXCEPT ![s] = update_status(@, "expired", FALSE)]
              /\ resp' = Response("access", s, "session_expired", <<>>)
       ELSE /\ sessions' = [sessions EXCEPT ![s] = increment_page_views(@)]
            /\ resp' = [op |-> "access", sid |-> s, code |-> "ok", calls |-> <<>>,
                        info |-> ConnectionInfo(s)]
    /\ UNCHANGED <<now, ticks, extends, maxContainers, hostPorts, accounts, wait, containers, req, sweep>>

\* get_session: the record is returned; a record that is active and has a
\* container gets update_last_accessed
get_session(s) ==
    /\ s \in Visible
    /\ sessions' = IF is_active(sessions[s]) /\ sessions[s].container_id # NULL
                      THEN [sessions EXCEPT ![s].last_accessed = now]
                   ELSE sessions
    /\ resp' = Response("get", s, "ok", <<>>)
    /\ UNCHANGED <<now, ticks, extends, maxContainers, hostPorts, accounts, wait, containers, req, sweep>>

\* update_session, for the updatable field session_name: a value that differs
\* from the stored one is written, with last_accessed
update_session(s, name) ==
    /\ s \in Visible
    /\ sessions' = IF name # NULL /\ name # sessions[s].session_name
                      THEN [sessions EXCEPT ![s].session_name = name,
                                            ![s].last_accessed = now]
                   ELSE sessions
    /\ resp' = Response("update", s, "ok", <<>>)
    /\ UNCHANGED <<now, ticks, extends, maxContainers, hostPorts, accounts, wait, containers, req, sweep>>

(* ---------------- auth/decorators.py: validate_user_ownership ---------------- *)

\* User.is_admin
is_admin(user) == user \in Admins

\* an ownership check that lets every authenticated user through
validate_any_user(user, s) ==
    IF is_admin(user) THEN "bypass"
    ELSE IF s \notin Visible THEN "resource_not_found"
    ELSE "resource"

\* validate_user_ownership('session_id', BrowserSession): an admin goes straight
\* to the view ("bypass", g.resource is not set); anyone else gets 404 for an
\* unknown id, 403 for a record of another user, and otherwise the view is
\* called with the record in g.resource
validate_user_ownership(user, s) ==
    IF is_admin(user) THEN "bypass"
    ELSE IF s \notin Visible THEN "resource_not_found"
    ELSE IF sessions[s].user_id # user THEN "access_denied"
    ELSE "resource"

\* the code of the 500 response of each view's except clause
FailureCode(op) ==
    CASE op = "get" -> "session_retrieval_failed"
      [] op = "update" -> "session_update_failed"
      [] op = "extend" -> "session_extension_failed"
      [] op = "stop" -> "session_stop_failed"
      [] op = "delete" -> "session_deletion_failed"
      [] op = "access" -> "session_access_failed"

\* a request to one of the views behind validate_user_ownership, made by user
\* for the session id s; view is the body of the view on g.resource.  After the
\* bypass the first statement of the view, session = g.resource, raises
\* AttributeError, which the view's except clause turns into its 500 response
Owned(op, user, s, view) ==
    LET v == validate_user_ownership(user, s)
    IN \/ /\ v = "resource"
          /\ view
       \/ /\ v = "bypass"
          /\ resp' = Response(op, s, FailureCode(op), <<>>)
          /\ UNCHANGED <<now, ticks, extends, maxContainers, hostPorts, accounts, wait, sessions,
                         containers, req, sweep>>
       \/ /\ v \in {"resource_not_found", "access_denied"}
          /\ resp' = Response(op, s, v, <<>>)
          /\ UNCHANGED <<now, ticks, extends, maxContainers, hostPorts, accounts, wait, sessions,
                         containers, req, sweep>>

GetRequest(user, s) == Owned("get", user, s, get_session(s))
UpdateRequest(user, s, name) == Owned("update", user, s, update_session(s, name))
ExtendRequest(user, s, h) == Owned("extend", user, s, extend_session_handler(s, h))
StopRequest(user, s, stopOk) == Owned("stop", user, s, stop_session(s, stopOk))
DeleteRequest(user, s, stopOk, removeOk) ==
    Owned("delete", user, s, delete_session(s, stopOk, removeOk))
AccessRequest(user, s) == Owned("access", user, s, access_session(s))

\* BrowserSession.add_error called on a record and committed; the runtime is
\* not called
add_error_commit(s) ==
    /\ s \in Visible
    /\ sessions[s].error_count < ERROR_LIMIT
    /\ sessions' = [sessions EXCEPT ![s] = add_error(@)]
    /\ UNCHANGED <<now, ticks, extends, maxContainers, hostPorts, accounts, wait, containers, req, sweep, resp>>

(* ---------------- services/user_service.py ---------------- *)

\* the history field after one more failed verification
OneMoreFailure(user) ==
    [user EXCEPT !.failed_verifications =
                    IF @ >= MAX_FAILED_LOGINS THEN 1 ELSE @ + 1]

\* authenticate_user(identifier, password): identifier names a user or nobody
\* (NULL), passwordOk is the result of verify_password.  The columns that keep
\* the time, the address and the number of logins are left out
authenticate_user(identifier, passwordOk) ==
    /\ IF identifier \notin Users
         THEN /\ resp' = Response("login", identifier, "invalid_credentials", <<>>)
              /\ UNCHANGED accounts
       ELSE IF is_locked(accounts[identifier])
         THEN /\ resp' = Response("login", identifier, "account_locked", <<>>)
              /\ UNCHANGED accounts
       ELSE IF ~accounts[identifier].active
         THEN /\ resp' = Response("login", identifier, "account_inactive", <<>>)
              /\ UNCHANGED accounts
       ELSE IF ~passwordOk
         THEN /\ accounts' = [accounts EXCEPT
                                ![identifier] = OneMoreFailure(increment_failed_login(@))]
              /\ resp' = Response("login", identifier, "invalid_credentials", <<>>)
       ELSE /\ accounts' = [accounts EXCEPT
                              ![identifier] = [reset_failed_login(@) EXCEPT
                                                 !.failed_verifications = 0]]
            /\ resp' = Response("login", identifier, "ok", <<>>)
    /\ UNCHANGED <<now, ticks, extends, maxContainers, hostPorts, wait, sessions,
                   containers, req, sweep>>

(* ---------------- cleanup passes ---------------- *)

\* a comparison that orders the two values although only one carries an offset
AwareBeforeNaiveOrdered(created, cutoff) == [raised |-> FALSE, value |-> created < cutoff]

\* created_time < cutoff_time in cleanup_expired_containers: created_time is parsed
\* from "...+00:00" and carries an offset, cutoff_time comes from utcnow() and
\* carries none, and Python raises TypeError when it orders such a pair
AwareBeforeNaive(created, cutoff) == [raised |-> TRUE, value |-> created < cutoff]

\* cleanup_expired_containers: the containers found older than the cutoff; a
\* comparison that raises is caught by the loop body's except clause
OldContainers(cs) ==
    {c \in DOMAIN cs :
        LET cmp == AwareBeforeNaive(cs[c].created, now - MAX_AGE_HOURS)
        IN ~cmp.raised /\ cmp.value}

\* each of them is removed with force, unless the call into the runtime fails
cleanup_expired_containers(cs, ok) ==
    IF ok THEN [c \in DOMAIN cs \ OldContainers(cs) |-> cs[c]] ELSE cs

RECURSIVE SetToSeq(_)
SetToSeq(S) ==
    IF S = {} THEN <<>>
    ELSE LET x == CHOOSE y \in S : \A z \in S : y <= z
         IN <<x>> \o SetToSeq(S \ {x})

\* the remove_container calls cleanup_expired_containers issues
CleanupCalls(cs, listed) ==
    IF listed THEN [i \in 1..Cardinality(OldContainers(cs)) |->
                        <<"remove", SetToSeq(OldContainers(cs))[i]>>]
    ELSE <<>>

\* a query that compares expires_at with cutoff_time, a day before utcnow()
ExpiredSessionsBeforeCutoff(scope) ==
    {s \in Visible : /\ sessions[s].user_id \in scope
                     /\ sessions[s].expires_at < now - MAX_AGE_HOURS
                     /\ sessions[s].status \in {"running", "creating"}}

\* the query of both passes: expires_at < utcnow(), status RUNNING or CREATING
ExpiredSessions(scope) ==
    {s \in Visible : /\ sessions[s].user_id \in scope
                     /\ sessions[s].expires_at < now
                     /\ sessions[s].status \in {"running", "creating"}}

\* admin.system_cleanup up to the query (lines 401-416); listed: containers.list
\* answered, removeOk: the forced removals went through
system_cleanup_start(p, listed, removeOk) ==
    /\ sweep[p].pc = "idle"
    /\ containers' = cleanup_expired_containers(containers, listed /\ removeOk)
    /\ sweep' = [sweep EXCEPT ![p] =
                    [pc |-> "running", kind |-> "system",
                     todo |-> ExpiredSessions(Users), snapshot |-> ExpiredSessions(Users),
                     calls |-> CleanupCalls(containers, listed)]]
    /\ UNCHANGED <<now, ticks, extends, maxContainers, hostPorts, accounts, wait, sessions, req, resp>>

\* sessions.cleanup_user_sessions up to the query (lines 463-473)
cleanup_user_sessions_start(p, u) ==
    /\ sweep[p].pc = "idle"
    /\ sweep' = [sweep EXCEPT ![p] =
                    [pc |-> "running", kind |-> "user",
                     todo |-> ExpiredSessions({u}), snapshot |-> ExpiredSessions({u}),
                     calls |-> <<>>]]
    /\ UNCHANGED <<now, ticks, extends, maxContainers, hostPorts, accounts, wait, sessions, containers, req, resp>>

\* the record the loop of pass p turns to next
NextRecord(p) == CHOOSE x \in sweep[p].todo : \A y \in sweep[p].todo : x <= y

\* a loop that a failed call into the runtime ends
RestNoneAfterFailure(p, s, ok) == IF ok THEN sweep[p].todo \ {s} ELSE {}

\* the records the loop has still to visit after its round on record s: the
\* calls report a failure by their result, and the except clause of the loop
\* body catches whatever is raised, so the loop goes on either way
Rest(p, s, ok) == sweep[p].todo \ {s}

\* one round of the loop over expired_sessions, on the record loaded by the query:
\* a committed record always carries its container id
SweepStep(p, stopOk, removeOk) ==
    /\ sweep[p].pc = "running"
    /\ sweep[p].todo # {}
    /\ LET s == NextRecord(p)
       IN /\ containers' = remove_container(stop_container(containers, s, stopOk),
                                            s, removeOk)
          /\ sessions' = IF s \in DOMAIN sessions
                            THEN [sessions EXCEPT
                                    ![s] = StatusAfterTeardown(s, "expired", FALSE,
                                                               stopOk /\ removeOk)]
                         ELSE sessions
          /\ sweep' = [sweep EXCEPT ![p].todo = Rest(p, s, stopOk /\ removeOk),
                                    ![p].calls = @ \o << <<"stop", s>>, <<"remove", s>> >>]
    /\ UNCHANGED <<now, ticks, extends, maxContainers, hostPorts, accounts, wait, req, resp>>

\* the loop is over: commit and answer
SweepFinish(p) ==
    /\ sweep[p].pc = "running"
    /\ sweep[p].todo = {}
    /\ sweep' = [sweep EXCEPT ![p] = IdleSweep]
    /\ resp' = Response("cleanup", NULL, "ok", <<>>)
    /\ UNCHANGED <<now, ticks, extends, maxContainers, hostPorts, accounts, wait, sessions, containers, req>>

(* ---------------- utils/database_helpers.py ---------------- *)

\* the query of cleanup_database: stopped_at < cutoff_date, status terminal
OldSessions ==
    {s \in Visible : /\ sessions[s].stopped_at # NULL
                     /\ sessions[s].stopped_at < now - RETENTION_HOURS
                     /\ sessions[s].status \in {"stopped", "expired", "error"}}

\* cleanup_database: the old records are deleted; the runtime is not called
cleanup_database ==
    /\ sessions' = [s \in DOMAIN sessions \ OldSessions |-> sessions[s]]
    /\ resp' = Response("cleanup_database", NULL, "ok", <<>>)
    /\ UNCHANGED <<now, ticks, extends, maxContainers, hostPorts, accounts, wait, containers, req, sweep>>

(* ---------------- the clock ---------------- *)
Tick(d) ==
    /\ ticks < MaxTicks
    /\ now' = now + d
    /\ ticks' = ticks + 1
    /\ UNCHANGED <<extends, maxContainers, hostPorts, accounts, wait, sessions, containers, req, sweep, resp>>

Init ==
    /\ now = 0
    /\ ticks = 0
    /\ extends = 0
    /\ maxContainers \in [Users -> 1..MaxQuota]
    /\ hostPorts = {}
    /\ accounts = [u \in Users |-> NewUser]
    /\ wait = IdleWait
    /\ sessions = <<>>
    /\ containers = <<>>
    /\ req = [r \in SessIds |-> IdleReq]
    /\ sweep = [p \in PassIds |-> IdleSweep]
    /\ resp = NoResp

(* ---------------- specifications ---------------- *)

CreateSteps ==
    \/ \E r \in SessIds : FindPorts(r)
    \/ \E r \in SessIds, o \in {"ok", "create_failed", "start_failed"} : RunContainer(r, o)
    \/ \E r \in SessIds, ready \in BOOLEAN, a \in BOOLEAN : CreateFinish(r, ready, a)

SweepStarts(p) ==
    \/ \E l \in BOOLEAN, ok \in BOOLEAN : system_cleanup_start(p, l, ok)
    \/ \E u \in Users : cleanup_user_sessions_start(p, u)

SweepSteps(p) ==
    \/ \E sok \in BOOLEAN, rok \in BOOLEAN : SweepStep(p, sok, rok)
    \/ SweepFinish(p)

\* no request is being served
Quiet ==
    /\ \A p \in PassIds : sweep[p].pc = "idle"
    /\ \A r \in SessIds : req[r].pc \in {"idle", "done"}

\* the first create_session request arrives while no request is being served
FirstCreate ==
    /\ Quiet
    /\ req[1].pc = "idle"
    /\ \E u \in Users, data \in SessionInputs, a \in BOOLEAN : CreateStart(1, u, data, a)

\* a create_session request arrives, whatever else is being served
AnyCreate ==
    \E r \in SessIds :
        /\ req[r].pc = "idle"
        /\ \E u \in Users, data \in SessionInputs, a \in BOOLEAN :
               CreateStart(r, u, data, a)

\* the handlers that create, extend, stop, delete and clean up, on the record
\* of the first create_session request, the requests served one after another
Next ==
    \/ FirstCreate
    \/ CreateSteps
    \/ \E s \in SessIds, h \in HoursInputs : Quiet /\ extend_session_handler(s, h)
    \/ \E s \in SessIds, ok \in BOOLEAN : Quiet /\ stop_session(s, ok)
    \/ \E s \in SessIds, ok \in BOOLEAN : Quiet /\ stop_any_session(s, ok)
    \/ \E s \in SessIds, sok \in BOOLEAN, rok \in BOOLEAN :
          Quiet /\ delete_session(s, sok, rok)
    \/ Quiet /\ SweepStarts(1)
    \/ SweepSteps(1)
    \/ Quiet /\ cleanup_database
    \/ \E d \in TickSteps : Tick(d)

Spec == Init /\ [][Next]_vars

\* the requests on one record while system-wide cleanup passes keep occurring:
\* the passes of the sweeper follow one another, each served to its end, while
\* the owner's requests, an owner's pass among them, arrive at any time
SystemPassBegins == \E l \in BOOLEAN, ok \in BOOLEAN : system_cleanup_start(1, l, ok)

NextLive ==
    \/ FirstCreate
    \/ CreateSteps
    \/ \E s \in SessIds, h \in HoursInputs : extend_session_handler(s, h)
    \/ \E s \in SessIds, ok \in BOOLEAN : stop_session(s, ok)
    \/ \E s \in SessIds, sok \in BOOLEAN, rok \in BOOLEAN : delete_session(s, sok, rok)
    \/ SystemPassBegins
    \/ SweepSteps(1)
    \/ \E u \in Users : cleanup_user_sessions_start(2, u)
    \/ SweepSteps(2)
    \/ \E d \in TickSteps : Tick(d)

SpecLive ==
    /\ Init /\ [][NextLive]_vars
    /\ WF_vars(SystemPassBegins)
    /\ WF_vars(SweepSteps(1))

\* the life of one record under access and stop requests
NextAccess ==
    \/ FirstCreate
    \/ CreateSteps
    \/ \E s \in SessIds : Quiet /\ access_session(s)
    \/ \E s \in SessIds, ok \in BOOLEAN : Quiet /\ stop_session(s, ok)
    \/ \E d \in TickSteps : Tick(d)

SpecAccess == Init /\ [][NextAccess]_vars

\* stop and access requests arriving while a cleanup pass goes through its records
NextRace ==
    \/ FirstCreate
    \/ CreateSteps
    \/ \E s \in SessIds, ok \in BOOLEAN : stop_session(s, ok)
    \/ \E s \in SessIds, ok \in BOOLEAN : stop_any_session(s, ok)
    \/ \E s \in SessIds : access_session(s)
    \/ SweepStarts(1)
    \/ SweepSteps(1)
    \/ \E d \in TickSteps : Tick(d)

SpecRace == Init /\ [][NextRace]_vars

\* errors recorded on the record of one create_session request
NextErrors ==
    \/ FirstCreate
    \/ CreateSteps
    \/ \E s \in SessIds : Quiet /\ add_error_commit(s)
    \/ \E d \in TickSteps : Tick(d)

SpecErrors == Init /\ [][NextErrors]_vars

\* extend requests arriving while a cleanup pass goes through its records
NextExtendRace ==
    \/ FirstCreate
    \/ CreateSteps
    \/ \E s \in SessIds, h \in HoursInputs : extend_session_handler(s, h)
    \/ SweepStarts(1)
    \/ SweepSteps(1)
    \/ \E d \in TickSteps : Tick(d)

SpecExtendRace == Init /\ [][NextExtendRace]_vars

\* cleanup requests served concurrently: rate_limit counts the requests by
\* remote address and endpoint, so requests to the two endpoints, or from two
\* addresses, are let through together
NextPasses ==
    \/ FirstCreate
    \/ CreateSteps
    \/ \E p \in PassIds : SweepStarts(p)
    \/ \E p \in PassIds : SweepSteps(p)
    \/ \E d \in TickSteps : Tick(d)

SpecPasses == Init /\ [][NextPasses]_vars

\* create_session requests while other processes of the host take and release
\* ports of the two ranges
NextPorts ==
    \/ AnyCreate
    \/ CreateSteps
    \/ \E p \in VncPorts \cup WebPorts : HostBinds(p)
    \/ \E p \in VncPorts \cup WebPorts : HostReleases(p)

SpecPorts == Init /\ [][NextPorts]_vars

\* creation requests served concurrently, with containers that may exit on
\* their own
NextExits ==
    \/ AnyCreate
    \/ CreateSteps
    \/ \E c \in SessIds : ContainerExits(c)

SpecExits == Init /\ [][NextExits]_vars

\* the views behind validate_user_ownership, called by owners, other users and
\* admins, one request at a time
NextOwners ==
    \/ FirstCreate
    \/ CreateSteps
    \/ \E u \in Principals, s \in SessIds : Quiet /\ GetRequest(u, s)
    \/ \E u \in Principals, s \in SessIds, name \in NameInputs :
          Quiet /\ UpdateRequest(u, s, name)
    \/ \E u \in Principals, s \in SessIds : Quiet /\ ExtendRequest(u, s, 1)
    \/ \E u \in Principals, s \in SessIds, ok \in BOOLEAN :
          Quiet /\ StopRequest(u, s, ok)
    \/ \E u \in Principals, s \in SessIds, stopOk \in BOOLEAN, removeOk \in BOOLEAN :
          Quiet /\ DeleteRequest(u, s, stopOk, removeOk)
    \/ \E u \in Principals, s \in SessIds : Quiet /\ AccessRequest(u, s)
    \/ Tick(1)

SpecOwners == Init /\ [][NextOwners]_vars

\* logins of users whose accounts are active or were deactivated, and the clock
InitLogin ==
    /\ now = 0
    /\ ticks = 0
    /\ extends = 0
    /\ maxContainers \in [Users -> 1..MaxQuota]
    /\ hostPorts = {}
    /\ accounts \in [Users -> {NewUser, [NewUser EXCEPT !.active = FALSE]}]
    /\ wait = IdleWait
    /\ sessions = <<>>
    /\ containers = <<>>
    /\ req = [r \in SessIds |-> IdleReq]
    /\ sweep = [p \in PassIds |-> IdleSweep]
    /\ resp = NoResp

NextLogin ==
    \/ \E identifier \in Users \cup {NULL}, passwordOk \in BOOLEAN :
          authenticate_user(identifier, passwordOk)
    \/ \E d \in TickSteps : Tick(d)

SpecLogin == InitLogin /\ [][NextLogin]_vars

\* the steps of a call of _wait_for_container_ready once it has begun
WaitSteps ==
    \/ \E d \in CallSeconds : WaitRound(d)
    \/ WaitTimesOut

NextWait ==
    \/ \E found \in InspectResults : WaitStart(found)
    \/ \E found \in InspectResults : ContainerChanges(found)
    \/ WaitSteps

\* a call of _wait_for_container_ready against a container that behaves in any
\* way: the thread that runs the loop keeps running and every call into the
\* runtime returns or raises (weak fairness of the loop's steps), while the
\* container is free to change or not
SpecWait == Init /\ [][NextWait]_vars /\ WF_vars(WaitSteps)

\* create_session requests served concurrently, their steps interleaved
NextCreate ==
    \/ AnyCreate
    \/ CreateSteps
    \/ \E d \in TickSteps : Tick(d)

SpecCreate == Init /\ [][NextCreate]_vars

\* concurrent create_session requests and the cleanup passes over their records
NextSweep ==
    \/ AnyCreate
    \/ CreateSteps
    \/ SweepStarts(1)
    \/ SweepSteps(1)
    \/ \E d \in TickSteps : Tick(d)

SpecSweep == Init /\ [][NextSweep]_vars

(* ---------------- properties ---------------- *)

\* the records of owner u that hold a container slot: Creating or Running
OwnerLoad(u) ==
    Cardinality({s \in DOMAIN sessions : /\ sessions[s].user_id = u
                                         /\ sessions[s].status \in {"creating", "running"}})

\* request r returns in this step
Returns(r) == req[r].pc # "done" /\ req'[r].pc = "done"

\* the elements of a sequence of runtime calls
Issued(calls) == {calls[i] : i \in DOMAIN calls}

\* C1: however create_session requests interleave, the number of an owner's
\* records in status Creating or Running never exceeds the owner's max_containers.
C1_QuotaNeverExceeded ==
    \A u \in Users : OwnerLoad(u) <= maxContainers[u]

\* C2: when create_session returns success, the record it returns is Running,
\* its vnc_port and web_port are set, differ, lie in the two disjoint port
\* ranges, and its expires_at is later than its created_at.
C2_SuccessfulCreate ==
    [][\A r \in SessIds :
         (Returns(r) /\ resp'.code = "created" /\ resp'.sid = r) =>
            /\ r \in DOMAIN sessions'
            /\ sessions'[r].committed
            /\ sessions'[r].status = "running"
            /\ sessions'[r].vnc_port # NULL /\ sessions'[r].web_port # NULL
            /\ sessions'[r].vnc_port # sessions'[r].web_port
            /\ sessions'[r].vnc_port \in VNC_START..(VNC_END - 1)
            /\ sessions'[r].web_port \in WEB_START..(WEB_END - 1)
            /\ (VNC_START..(VNC_END - 1)) \cap (WEB_START..(WEB_END - 1)) = {}
            /\ sessions'[r].expires_at > sessions'[r].created_at]_vars

\* a create_session request has returned success for a Running record
C2_Witness ==
    /\ resp.op = "create" /\ resp.code = "created"
    /\ resp.sid \in DOMAIN sessions
    /\ req[resp.sid].pc = "done"
    /\ sessions[resp.sid].status = "running"
    /\ sessions[resp.sid].vnc_port \in VncPorts
    /\ sessions[resp.sid].web_port \in WebPorts

\* C3: a create_session request made while the owner's records in Creating or
\* Running already number max_containers is refused with max_containers_reached
\* and changes neither the registry nor the runtime nor any port.
C3_RefusedAtQuota ==
    [][\A r \in SessIds :
         /\ (req[r].pc = "idle" /\ req'[r].pc = "registered")
               => OwnerLoad(req'[r].user) < maxContainers[req'[r].user]
         /\ (resp' # resp /\ resp'.code = "max_containers_reached")
               => UNCHANGED <<sessions, containers, req>>]_vars

\* a stop request for record s returns in this step
StopReturns(s) ==
    resp' # resp /\ resp'.op \in {"stop", "admin_stop"} /\ resp'.sid = s

\* an extend request for record s is accepted in this step
ExtendAccepted(s) ==
    extends' = extends + 1 /\ resp'.op = "extend" /\ resp'.code = "ok" /\ resp'.sid = s

\* C4 (as stated): a stop request for a record that an earlier stop request
\* left Stopped succeeds again, leaves the record Stopped and issues no stop
\* or remove call to the runtime.
C4_StopIdempotent ==
    [][\A s \in SessIds :
         (StopReturns(s) /\ sessions[s].status = "stopped") =>
            /\ resp'.code = "ok"
            /\ resp'.calls = <<>>
            /\ sessions'[s].status = "stopped"]_vars

\* C4 (amended): a stop request for a Creating or Running record succeeds and
\* leaves it Stopped; a stop request for a record already Stopped is refused
\* with session_not_running, changes neither the record nor the runtime and
\* issues no stop or remove call.
C4_SecondStopRefused ==
    [][\A s \in SessIds :
         StopReturns(s) =>
            /\ is_active(sessions[s]) =>
                  (resp'.code = "ok" /\ sessions'[s].status = "stopped")
            /\ sessions[s].status = "stopped" =>
                  /\ resp'.code = "session_not_running"
                  /\ resp'.calls = <<>>
                  /\ UNCHANGED <<sessions, containers>>]_vars

\* a stop request has been refused for a record an earlier one stopped
C4_Witness ==
    /\ resp.op \in {"stop", "admin_stop"}
    /\ resp.code = "session_not_running"
    /\ resp.sid \in DOMAIN sessions
    /\ sessions[resp.sid].status = "stopped"
    /\ sessions[resp.sid].stopped_at # NULL

\* C5: an accepted extend request never moves expires_at of the record to an
\* earlier time, whatever hours it carries (zero, negative, above the cap).
C5_ExtendNeverDecreases ==
    [][\A s \in SessIds :
         ExtendAccepted(s) => sessions'[s].expires_at >= sessions[s].expires_at]_vars

\* C6 (as stated): one extend request moves expires_at later by at most the cap
\* of 8 hours, whether the old expires_at is in the future or in the past.
C6_IncreaseWithinCap ==
    [][\A s \in SessIds :
         ExtendAccepted(s) =>
            sessions'[s].expires_at - sessions[s].expires_at <= MAX_EXTEND_HOURS]_vars

\* C6 (amended): after one extend request expires_at is at most the cap of 8
\* hours later than the later of the old expires_at and the current time; the
\* increase over the old expires_at stays within the cap when it was not in the past.
C6_IncreaseFromLaterOfNowAndExpiry ==
    [][\A s \in SessIds :
         ExtendAccepted(s) =>
            /\ sessions'[s].expires_at
                  <= Max(sessions[s].expires_at, now) + MAX_EXTEND_HOURS
            /\ sessions[s].expires_at >= now =>
                  sessions'[s].expires_at - sessions[s].expires_at <= MAX_EXTEND_HOURS]_vars

\* the first extend request, with hours above the cap, found the record's
\* expires_at in the past and moved it a full cap beyond the current time
C6_Witness ==
    /\ resp.op = "extend" /\ resp.code = "ok"
    /\ extends = 1
    /\ resp.sid \in DOMAIN sessions
    /\ sessions[resp.sid].created_at + DEFAULT_TTL < now
    /\ sessions[resp.sid].expires_at = now + MAX_EXTEND_HOURS

\* how often a runtime call occurs among the calls of a pass
Count(calls, call) == Cardinality({i \in DOMAIN calls : calls[i] = call})

C8_NoPortHandedOutTwice ==
    \A r1 \in SessIds, r2 \in SessIds :
        (/\ r1 # r2
         /\ req[r1].pc \in {"ports", "started"}
         /\ req[r2].pc \in {"ports", "started"})
            => (req[r1].vnc # req[r2].vnc /\ req[r1].web # req[r2].web)

\* C9: when the runtime's create call fails during create_session, the request
\* returns container_creation_failed, no record of the attempt is left in a
\* non-terminal status, and both ports of the attempt can be allocated again.
C9_FailedCreateReleases ==
    [][\A r \in SessIds :
         (req[r].pc = "ports" /\ Returns(r)) =>
            /\ resp'.code = "container_creation_failed" /\ resp'.sid = r
            /\ r \in DOMAIN sessions' => ~is_active(sessions'[r])
            /\ req[r].vnc \in FreePorts(containers', VncPorts)
            /\ req[r].web \in FreePorts(containers', WebPorts)]_vars

\* C10: when create_session fails after its container has been started (the
\* readiness wait times out), the request has called the runtime to tear the
\* container down before it returns: no container of the failed attempt stays
\* in the runtime without a record that refers to it.
C10_FailedCreateTearsDown ==
    [][\A r \in SessIds :
         (req[r].pc = "started" /\ Returns(r) /\ resp'.code # "created") =>
            \/ \E s \in DOMAIN sessions' : sessions'[s].container_id = r
            \/ /\ <<"remove", r>> \in Issued(resp'.calls)
               /\ r \notin DOMAIN containers']_vars

\* request r fails in this step after its record was registered: at the port
\* probes, at client.containers.run or at the readiness wait
FailsAfterRegistering(r) ==
    /\ Returns(r)
    /\ r \in DOMAIN sessions
    /\ resp'.code # "created"
    /\ ~(r \in DOMAIN sessions' /\ sessions'[r].committed)

\* C11 (as stated): when create_session fails after it registered its record
\* as Creating, the record of the attempt ends with status Error.
C11_FailedCreateEndsInError ==
    [][\A r \in SessIds :
         FailsAfterRegistering(r) =>
            (r \in DOMAIN sessions' /\ sessions'[r].status = "error")]_vars

\* C11 (amended): when create_session fails after it registered its record as
\* Creating, the request returns container_creation_failed and the record of
\* the attempt is rolled back: the registry holds no record of it, in status
\* Error or any other.
C11_FailedCreateRollsBack ==
    [][\A r \in SessIds :
         FailsAfterRegistering(r) =>
            /\ resp'.code = "container_creation_failed" /\ resp'.sid = r
            /\ r \notin DOMAIN sessions'
            /\ \A s \in DOMAIN sessions' : sessions'[s].status # "error"]_vars

\* a create_session request has failed after the runtime started its container,
\* and the registry holds no record of the attempt
C11_Witness ==
    /\ resp.op = "create" /\ resp.code = "container_creation_failed"
    /\ resp.sid \in SessIds
    /\ req[resp.sid].pc = "done"
    /\ resp.sid \notin DOMAIN sessions
    /\ resp.sid \in DOMAIN containers

\* C12: in every state and for every record of the registry, container_id is
\* set if and only if the status is Creating, Running or Stopping; it is
\* cleared whenever the status is Stopped, Error or Expired.
C12_ContainerRefIffLive ==
    \A s \in Visible :
        (sessions[s].container_id # NULL)
            <=> (sessions[s].status \in {"creating", "running", "stopping"})

\* C13: a record leaves the registry (delete_session, cleanup_database) only
\* when its container is absent from the runtime: no step removes a record
\* while the container it refers to still exists.
C13_RemovedOnlyWhenContainerAbsent ==
    [][\A s \in SessIds :
         (s \in Visible /\ s \notin DOMAIN sessions') =>
            sessions[s].container_id \notin DOMAIN containers']_vars

\* C14: a stop request for a record that has a container_id calls stop and
\* then remove for that container, in that order, and then sets the record
\* Stopped with stopped_at = now.
C14_StopThenRemove ==
    [][\A s \in SessIds :
         (StopReturns(s) /\ is_active(sessions[s]) /\ sessions[s].container_id # NULL) =>
            /\ resp'.calls = <<StopCall(s), RemoveCall(s)>>
            /\ sessions'[s].status = "stopped"
            /\ sessions'[s].stopped_at = now]_vars

\* an access request for record s returns in this step
AccessReturns(s) ==
    /\ resp'.op = "access" /\ resp'.sid = s
    /\ (resp' # resp \/ sessions' # sessions)

\* C15: an access request for a session with now > expires_at makes the record
\* Expired, tears its container down (stop and remove) and fails with
\* session_expired.
C15_ExpiredAccessTearsDown ==
    [][\A s \in SessIds :
         (AccessReturns(s) /\ is_active(sessions[s]) /\ now > sessions[s].expires_at) =>
            /\ sessions'[s].status = "expired"
            /\ resp'.code = "session_expired"
            /\ resp'.calls = <<StopCall(s), RemoveCall(s)>>
            /\ sessions[s].container_id \notin DOMAIN containers']_vars

\* C16: an access request for a Running session with now <= expires_at adds
\* exactly 1 to page_views, sets last_accessed to now, returns the access url
\* and the two ports of the record, and leaves status, expires_at,
\* container_id, the ports and the runtime unchanged.
C16_AccessCountsAndReturns ==
    [][\A s \in SessIds :
         (AccessReturns(s) /\ sessions[s].status = "running"
                           /\ now <= sessions[s].expires_at) =>
            /\ resp'.code = "ok"
            /\ sessions'[s].page_views = sessions[s].page_views + 1
            /\ sessions'[s].last_accessed = now
            /\ resp'.info = [access_url |-> sessions[s].access_url,
                             vnc_port |-> sessions[s].vnc_port,
                             web_port |-> sessions[s].web_port]
            /\ sessions'[s].status = sessions[s].status
            /\ sessions'[s].expires_at = sessions[s].expires_at
            /\ sessions'[s].container_id = sessions[s].container_id
            /\ sessions'[s].vnc_port = sessions[s].vnc_port
            /\ sessions'[s].web_port = sessions[s].web_port
            /\ containers' = containers]_vars

\* a Running session has been accessed twice, the second time at the very hour
\* it expires
C16_Witness ==
    /\ resp.op = "access" /\ resp.code = "ok"
    /\ resp.sid \in DOMAIN sessions
    /\ sessions[resp.sid].status = "running"
    /\ sessions[resp.sid].page_views = 2
    /\ sessions[resp.sid].last_accessed = now
    /\ sessions[resp.sid].expires_at = now
    /\ sessions[resp.sid].created_at < now

\* an extend request for record s returns in this step
ExtendReturns(s) ==
    extends' = extends + 1 /\ resp'.op = "extend" /\ resp'.sid = s

\* C17: an extend request for a record whose status is not Running (Creating,
\* Stopping, Stopped, Error or Expired) is rejected and leaves expires_at
\* unchanged.
C17_ExtendOnlyRunning ==
    [][\A s \in SessIds :
         (ExtendReturns(s) /\ sessions[s].status # "running") =>
            /\ resp'.code = "session_not_active"
            /\ sessions'[s].expires_at = sessions[s].expires_at
            /\ sessions' = sessions]_vars

\* an extend request has been rejected for a Stopped record
C17_Witness ==
    /\ resp.op = "extend" /\ resp.code = "session_not_active"
    /\ resp.sid \in DOMAIN sessions
    /\ sessions[resp.sid].status = "stopped"
    /\ extends >= 1

\* a create request whose spec names an unknown browser or a malformed resolution
InvalidSpec(data) ==
    \/ data.browser_type \notin {"firefox", "chrome", "chromium"}
    \/ data.wd \notin {3, 4}
    \/ data.hd \notin {3, 4}

\* C18 (as stated): a create request with an invalid spec fails with
\* validation_failed and leaves registry, ports and runtime as they were.
C18_InvalidSpecRejected ==
    [][\A r \in SessIds, u \in Users, data \in SessionInputs, a \in BOOLEAN :
         (InvalidSpec(data) /\ CreateStart(r, u, data, a)) =>
            /\ resp'.code = "validation_failed"
            /\ UNCHANGED <<sessions, containers, req>>]_vars

\* C18 (amended): a create request with an invalid spec adds no record, holds
\* no port and calls no container; it fails with validation_failed when the
\* owner's Running records number less than max_containers, and with
\* max_containers_reached otherwise, the quota being checked first.
C18_InvalidSpecNoSideEffects ==
    [][\A r \in SessIds, u \in Users, data \in SessionInputs, a \in BOOLEAN :
         (InvalidSpec(data) /\ CreateStart(r, u, data, a)) =>
            /\ resp'.code = IF QuotaReached(u) THEN "max_containers_reached"
                            ELSE "validation_failed"
            /\ resp'.calls = <<>>
            /\ UNCHANGED <<sessions, containers, req>>]_vars

\* a create request has been refused for its spec while another request of the
\* registry was in flight
C18_Witness ==
    /\ resp.op = "create" /\ resp.code = "validation_failed"
    /\ \E r \in SessIds : req[r].pc = "idle"
    /\ \E r \in SessIds : req[r].pc \in {"registered", "ports", "started"}

\* the status changes the state machine allows
Terminal == {"stopped", "error", "expired"}
NonTerminal == {"creating", "running", "stopping"}
Edges ==
    {<<"creating", "running">>, <<"creating", "error">>, <<"running", "stopping">>,
     <<"stopping", "stopped">>, <<"running", "expired">>}
        \cup (NonTerminal \X Terminal)

\* C19: every record is registered with status Creating, every later change of
\* its status follows an edge of the state machine, and a record in Stopped,
\* Error or Expired never changes status again.
C19_StatusFollowsStateMachine ==
    [][\A s \in SessIds :
         /\ (s \notin DOMAIN sessions /\ s \in DOMAIN sessions')
               => sessions'[s].status = "creating"
         /\ (s \in DOMAIN sessions /\ s \in DOMAIN sessions'
                                   /\ sessions'[s].status # sessions[s].status)
               => /\ <<sessions[s].status, sessions'[s].status>> \in Edges
                  /\ sessions[s].status \notin Terminal]_vars

Orphans ==
    {c \in DOMAIN containers :
        /\ req[c].pc = "done"
        /\ ~\E s \in DOMAIN sessions : /\ sessions[s].container_id = c
                                        /\ sessions[s].status \in NonTerminal}

\* C21: the container scan of a system-wide cleanup pass, when its calls into
\* the runtime go through, removes every container of the service that no
\* non-terminal record names; stated here for the orphans older than the age
\* limit of the scan only.
C21_ScanRemovesOrphans ==
    [][\A p \in PassIds :
         system_cleanup_start(p, TRUE, TRUE) =>
            \A c \in Orphans :
                containers[c].created < now - MAX_AGE_HOURS
                    => c \notin DOMAIN containers']_vars

\* C22: when the audit call of create_session fails after the record was
\* committed Running, the request still returns success ("created") and the
\* registry and the runtime are as if the audit call had succeeded.
C22_AuditFailureStillSucceeds ==
    [][\A r \in SessIds :
         CreateFinish(r, TRUE, FALSE) =>
            /\ resp'.code = "created"
            /\ sessions'[r].committed /\ sessions'[r].status = "running"
            /\ UNCHANGED containers]_vars

C24_LimitsArePlatformLimits ==
    /\ \A c \in DOMAIN containers :
          /\ containers[c].cpu_limit = CONTAINER_CPU_LIMIT
          /\ containers[c].mem_limit = CONTAINER_MEMORY_LIMIT
    /\ \A r \in SessIds :
          req[r].pc \in {"registered", "ports"} =>
              ResourceLimits(req[r]) = [cpu_limit |-> CONTAINER_CPU_LIMIT,
                                        memory_limit |-> CONTAINER_MEMORY_LIMIT]

\* a request that asked for 64 cpus and 64 gigabytes has its container running
\* with the limits of the configuration
C24_Witness ==
    \E r \in SessIds :
        /\ req[r].pc = "started"
        /\ req[r].data = [cpu_limit |-> 64, memory_limit |-> 64]
        /\ r \in DOMAIN containers
        /\ containers[r].status = "running"
        /\ containers[r].cpu_limit = CONTAINER_CPU_LIMIT
        /\ containers[r].mem_limit = CONTAINER_MEMORY_LIMIT

\* C25: an extend request and the expiry of the same record by a cleanup pass
\* take effect one after the other: either the extension comes first and the
\* pass leaves the record alone, or the expiry comes first and the extension
\* is refused.  So a record that is Expired was expired at a time later than
\* its expires_at.
C25_ExpiredOnlyAfterExpiry ==
    \A s \in Visible :
        sessions[s].status = "expired" =>
            sessions[s].expires_at < sessions[s].stopped_at

\* C26: no two cleanup passes are in progress together, so no expired record
\* is torn down by two passes; stated here for a system-wide pass and an
\* owner's pass, which are requests to two endpoints: they never both call
\* stop or remove for the container of the same record.
C26_NoTeardownFromTwoPasses ==
    \A p1 \in PassIds, p2 \in PassIds :
        (/\ sweep[p1].pc = "running" /\ sweep[p1].kind = "system"
         /\ sweep[p2].pc = "running" /\ sweep[p2].kind = "user")
            => Issued(sweep[p1].calls) \cap Issued(sweep[p2].calls) = {}

C28_FailedTeardownStillAdvances ==
    [][/\ \A s \in SessIds :
            ((stop_session(s, FALSE) \/ stop_any_session(s, FALSE))
                 /\ is_active(sessions[s])) =>
                /\ sessions'[s].status = "stopped"
                /\ sessions'[s].stopped_at = now
                /\ resp'.code = "ok"
       /\ \A p \in PassIds, sok \in BOOLEAN, rok \in BOOLEAN :
            (SweepStep(p, sok, rok) /\ ~(sok /\ rok)
                 /\ NextRecord(p) \in DOMAIN sessions) =>
                /\ sessions'[NextRecord(p)].status = "expired"
                /\ sessions'[NextRecord(p)].stopped_at = now]_vars

\* a stop request has answered success and left the record Stopped although
\* the runtime did not stop the container, which still runs
C28_Witness ==
    /\ resp.op \in {"stop", "admin_stop"} /\ resp.code = "ok"
    /\ resp.sid \in DOMAIN sessions
    /\ sessions[resp.sid].status = "stopped"
    /\ sessions[resp.sid].container_id \in DOMAIN containers
    /\ containers[sessions[resp.sid].container_id].status = "running"

\* C29: when create_session succeeds, the record it makes Running has
\* expires_at = started_at + the default lifetime, both taken from the same
\* reading of the clock.
C29_ExpiryCountsFromStart ==
    [][\A r \in SessIds :
         CreateFinish(r, TRUE, TRUE) =>
            /\ sessions'[r].status = "running"
            /\ sessions'[r].expires_at = sessions'[r].started_at + DEFAULT_TTL]_vars

\* record s is Creating or Running and its expires_at has passed
Overdue(s) ==
    /\ s \in Visible
    /\ is_active(sessions[s])
    /\ sessions[s].expires_at < now

\* C30: when system-wide cleanup passes keep occurring, every Creating or
\* Running record whose expires_at has passed is eventually Expired, unless it
\* is extended beyond the current time, stopped or deleted before.
C30_OverdueEventuallyExpired ==
    \A s \in SessIds :
        Overdue(s) ~> \/ s \notin DOMAIN sessions
                      \/ sessions[s].status \in {"expired", "stopped"}
                      \/ sessions[s].expires_at >= now

\* a cleanup pass has answered after it expired a record that had been
\* extended and then ran past its new expires_at
C30_Witness ==
    /\ resp.op = "cleanup" /\ resp.code = "ok"
    /\ \E s \in Visible :
          /\ sessions[s].status = "expired"
          /\ sessions[s].expires_at > sessions[s].created_at + DEFAULT_TTL
          /\ sessions[s].expires_at < sessions[s].stopped_at

\* record s carries an endpoint: a display port, a web port or an access url
HasEndpoints(s) ==
    \/ sessions[s].vnc_port # NULL
    \/ sessions[s].web_port # NULL
    \/ sessions[s].access_url # NULL

\* C31: in every state a record carries endpoints only if it has reached
\* status Running (started_at is set and the status is no longer Creating);
\* a record that is Creating, or that is in Error without having run, has none.
C31_EndpointsOnlyOnceRunning ==
    \A s \in DOMAIN sessions :
        /\ HasEndpoints(s) =>
              (sessions[s].status # "creating" /\ sessions[s].started_at # NULL)
        /\ (sessions[s].status = "error" /\ sessions[s].started_at = NULL)
              => ~HasEndpoints(s)

\* a create_session request has chosen its ports and its container runs, while
\* its record is still Creating and carries no endpoint
C31_Witness ==
    \E r \in SessIds :
        /\ req[r].pc = "started"
        /\ req[r].vnc # NULL /\ req[r].web # NULL
        /\ r \in DOMAIN sessions
        /\ sessions[r].status = "creating"
        /\ ~HasEndpoints(r)

\* C32: when no port of a range is free, create_session fails at the port
\* probes: the request returns container_creation_failed (its message names
\* the exhausted range), its record is rolled back, and no call to create a
\* container has been issued: the runtime holds what it held before and
\* nothing for this request.
C32_NoPortNoContainerCall ==
    [][\A r \in SessIds :
         (/\ FindPorts(r)
          /\ \/ FreePorts(containers, VncPorts) = {}
             \/ FreePorts(containers, WebPorts) = {}) =>
            /\ Returns(r)
            /\ resp'.code = "container_creation_failed" /\ resp'.sid = r
            /\ resp'.calls = <<>>
            /\ UNCHANGED containers
            /\ r \notin DOMAIN containers'
            /\ r \notin DOMAIN sessions']_vars

\* a create_session request has failed at the port probes, every port of the
\* display range being bound, and the runtime holds no container of it
C32_Witness ==
    \E r \in SessIds :
        /\ req[r].pc = "done" /\ req[r].vnc = NULL
        /\ resp.op = "create" /\ resp.sid = r
        /\ resp.code = "container_creation_failed"
        /\ FreePorts(containers, VncPorts) = {}
        /\ r \notin DOMAIN containers
        /\ r \notin DOMAIN sessions

\* a cleanup request takes a step: it begins, or its loop visits a record
CleanupActs == \E p \in PassIds : sweep'[p] # sweep[p]

\* C34: no step of a cleanup request (the container scan and the loop over
\* the expired records) stops or removes the container of a record that is
\* Creating or Running with expires_at still in the future, however old the
\* container is and however often the session was extended.
C34_CleanupSparesLiveSessions ==
    [][\A s \in SessIds :
         (/\ CleanupActs
          /\ s \in Visible
          /\ is_active(sessions[s])
          /\ sessions[s].expires_at > now
          /\ sessions[s].container_id \in DOMAIN containers) =>
            /\ sessions[s].container_id \in DOMAIN containers'
            /\ containers'[sessions[s].container_id]
                   = containers[sessions[s].container_id]]_vars

\* the committed records with status Running
RunningRecords == {s \in Visible : sessions[s].status = "running"}

\* C35: no two records that are Running at the same time have the same
\* vnc_port, and no two have the same web_port.
C35_RunningPortsDistinct ==
    \A s, t \in RunningRecords :
        s # t => /\ sessions[s].vnc_port # sessions[t].vnc_port
                 /\ sessions[s].web_port # sessions[t].web_port


OwnedRequests(user, s) ==
    \/ GetRequest(user, s)
    \/ \E name \in NameInputs : UpdateRequest(user, s, name)
    \/ \E h \in HoursInputs : ExtendRequest(user, s, h)
    \/ \E ok \in BOOLEAN : StopRequest(user, s, ok)
    \/ \E stopOk \in BOOLEAN, removeOk \in BOOLEAN : DeleteRequest(user, s, stopOk, removeOk)
    \/ AccessRequest(user, s)

\* C37: a get, update, extend, stop, delete or access request by a user who is
\* not an admin, for a session that belongs to another user, is answered with
\* access_denied and leaves the record and the container as they were.
C37_OthersAreDenied ==
    [][\A u \in Users, s \in SessIds :
         (/\ s \in Visible
          /\ ~is_admin(u)
          /\ sessions[s].user_id # u
          /\ OwnedRequests(u, s)) =>
            /\ resp'.code = "access_denied"
            /\ resp'.sid = s
            /\ UNCHANGED <<sessions, containers>>]_vars

\* a delete request for the Running session of another user was refused
C37_Witness ==
    /\ resp.op = "delete"
    /\ resp.code = "access_denied"
    /\ resp.sid \in Visible
    /\ sessions[resp.sid].status = "running"
    /\ resp.sid \in DOMAIN containers
    /\ containers[resp.sid].status = "running"

\* C38: a request by an admin passes the ownership check and has the effect
\* the same request has when the owner of the session makes it.
C38_AdminActsAsOwner ==
    [][\A a \in Admins, s \in SessIds :
         s \in Visible =>
            /\ GetRequest(a, s) => get_session(s)
            /\ \A name \in NameInputs :
                  UpdateRequest(a, s, name) => update_session(s, name)
            /\ \A h \in HoursInputs :
                  ExtendRequest(a, s, h) => extend_session_handler(s, h)
            /\ \A ok \in BOOLEAN : StopRequest(a, s, ok) => stop_session(s, ok)
            /\ \A stopOk \in BOOLEAN, removeOk \in BOOLEAN :
                  DeleteRequest(a, s, stopOk, removeOk) => delete_session(s, stopOk, removeOk)
            /\ AccessRequest(a, s) => access_session(s)]_vars

C33_WaitReadyTerminates ==
    /\ (wait.pc = "polling") ~> (wait.pc \in {"returned", "raised"})
    /\ [](wait.pc = "raised" => wait.elapsed >= READY_TIMEOUT)

\* the wait has given up after the timeout, on a container that never ran
C33_Witness ==
    /\ wait.pc = "raised"
    /\ wait.elapsed >= READY_TIMEOUT
    /\ wait.found \in {"raises", "created", "exited"}
====
